---- MODULE Spec2Model ----
(***************************************************************************)
(* Model of src/lambda_function/src/main.py: the scheduled handler         *)
(* CWScheduledEventManageRdsState, which discovers tagged RDS instances    *)
(* and clusters per region and starts or stops them.                       *)
(*                                                                         *)
(* Strings that the code takes apart (the PARAM_AWS_REGIONS value, split   *)
(* on ',', and a ResourceARN, split on ':') are sequences of symbols, so   *)
(* that the splitting is computed.  Strings that the code only compares or *)
(* passes on (ACTION, the tag key and value) are TLA+ strings.             *)
(***************************************************************************)
EXTENDS Naturals, Sequences, FiniteSets

VARIABLES
    env,                \* os.environ: a function from the defined names to values
    cls_ACTION,         \* class attribute ACTION, main.py:13 (ACTION is a TLA+ keyword)
    RESOURCE_TAG_KEY,   \* class attribute, main.py:14
    RESOURCE_TAG_VALUE, \* class attribute, main.py:15
    AWS_REGIONS,        \* class attribute, main.py:16 (a list of region strings)
    pc,                 \* position of the program
    region_idx,         \* index in AWS_REGIONS of the region being processed
    names,              \* rds_database_instance_names / rds_database_cluster_names
    idx,                \* position of the transition helper's loop in names
    trace,              \* every log line and remote call so far, in order
    raised,             \* the exception that left the program, or "none"
    listed,             \* resources the tagging API has listed so far (bounds the model)
    response,           \* what _execute returned, or "none"
    resource_pages,     \* (discovery alone) pages delivered by the paginator
    resource_identifiers \* (discovery alone) result of the discovery, or NotRun

vars == <<env, cls_ACTION, RESOURCE_TAG_KEY, RESOURCE_TAG_VALUE, AWS_REGIONS, pc,
          region_idx, names, idx, trace, raised, listed, response,
          resource_pages, resource_identifiers>>

execVars == <<env, cls_ACTION, RESOURCE_TAG_KEY, RESOURCE_TAG_VALUE, AWS_REGIONS, pc,
              region_idx, names, idx, trace, raised, listed, response>>

discVars == <<resource_pages, resource_identifiers>>

-----------------------------------------------------------------------------
(* Bounds of the model. *)

\* most resources the tagging API lists during one invocation
MaxResources == 3
\* most pages the paginator delivers to one discovery (discovery alone)
MaxPages == 2
\* most resources in the pages of one discovery (discovery alone)
MaxListed == 3

-----------------------------------------------------------------------------
(* Strings as sequences of symbols. *)

RECURSIVE SeqsUpTo(_, _)
\* all sequences over S of length at most n
SeqsUpTo(S, n) ==
    IF n = 0 THEN {<<>>}
    ELSE LET shorter == SeqsUpTo(S, n - 1)
         IN  shorter \cup {Append(s, x) : s \in {t \in shorter : Len(t) = n - 1}, x \in S}

RECURSIVE SplitFrom(_, _, _, _)
\* str.split(sep), scanning s from position i with the current segment cur
SplitFrom(s, sep, i, cur) ==
    IF i > Len(s) THEN <<cur>>
    ELSE IF s[i] = sep THEN <<cur>> \o SplitFrom(s, sep, i + 1, <<>>)
    ELSE SplitFrom(s, sep, i + 1, Append(cur, s[i]))

\* Python's s.split(sep) for a one-symbol separator: never an empty list
Split(s, sep) == SplitFrom(s, sep, 1, <<>>)

\* Python's seq[-1]
LastOf(seq) == seq[Len(seq)]

-----------------------------------------------------------------------------
(* The process environment. *)

EnvNames == {"PARAM_ACTION", "PARAM_RESOURCE_TAG_KEY", "PARAM_RESOURCE_TAG_VALUE",
             "PARAM_AWS_REGIONS"}

\* values of PARAM_ACTION: the four recognised ones and one that differs in case
ActionValues == {"start", "stop", "enable", "disable", "Start"}

\* values of PARAM_AWS_REGIONS, in symbols (a region name or a comma): the empty
\* string, one region, two regions, the same region twice, a trailing comma, a
\* leading comma, and two commas in a row between two regions
RegionValues ==
    { <<>>,
      <<"us-east-1">>,
      <<"us-east-1", ",", "eu-west-1">>,
      <<"us-east-1", ",", "us-east-1">>,
      <<"us-east-1", ",">>,
      <<",", "eu-west-1">>,
      <<"eu-west-1", ",", ",", "us-east-1">> }

FullEnvs ==
    { [n \in EnvNames |->
          CASE n = "PARAM_ACTION" -> a
            [] n = "PARAM_RESOURCE_TAG_KEY" -> "env"
            [] n = "PARAM_RESOURCE_TAG_VALUE" -> "scheduled-off"
            [] OTHER -> r ] :
        a \in ActionValues, r \in RegionValues }

\* an environment defines any subset of the four names
Envs == { [n \in D |-> e[n]] : e \in FullEnvs, D \in SUBSET EnvNames }

\* the value of a class attribute that was never assigned
Unset == "<unset>"

-----------------------------------------------------------------------------
(* Entries of the trace: log lines and remote calls. *)

LogEv(level, msg, arg) ==
    [kind |-> "log", op |-> level, what |-> msg, iter |-> 0, region |-> <<>>,
     id |-> arg, ids |-> <<>>, res |-> "", count |-> 0]

\* the 'Found %s ...' lines carry the number of identifiers as well as the region
FoundEv(msg, count, region) ==
    [kind |-> "log", op |-> "info", what |-> msg, iter |-> 0, region |-> region,
     id |-> <<>>, ids |-> <<>>, res |-> "", count |-> count]

DiscoverEv(i, region, rtype, result, outcome) ==
    [kind |-> "discover", op |-> "get_resources", what |-> rtype, iter |-> i,
     region |-> region, id |-> <<>>, ids |-> result, res |-> outcome, count |-> 0]

CallEv(i, region, operation, name, outcome) ==
    [kind |-> "call", op |-> operation, what |-> "", iter |-> i,
     region |-> region, id |-> name, ids |-> <<>>, res |-> outcome, count |-> 0]

-----------------------------------------------------------------------------
(* _get_resource_identifiers_by_tag, main.py:18-42.  A page is the page's *)
(* ResourceTagMappingList, a sequence of ResourceARN values.              *)

\* a slip: the first segment instead of the last
ResourceIdentifierFirst(arn) == Head(Split(arn, ":"))

\* main.py:39: resource['ResourceARN'].split(':')[-1]
ResourceIdentifier(arn) == LastOf(Split(arn, ":"))

RECURSIVE IdentifiersOfPage(_, _)
\* main.py:38-40: the inner loop, appending to acc from position i of the page
IdentifiersOfPage(page, acc) ==
    IF page = <<>> THEN acc
    ELSE IdentifiersOfPage(Tail(page), Append(acc, ResourceIdentifier(Head(page))))

RECURSIVE IdentifiersOfPages(_, _)
\* main.py:37-40: the outer loop over the pages
IdentifiersOfPages(pages, acc) ==
    IF pages = <<>> THEN acc
    ELSE IdentifiersOfPages(Tail(pages), IdentifiersOfPage(Head(pages), acc))

\* main.py:35-42
GetResourceIdentifiersByTag(pages) == IdentifiersOfPages(pages, <<>>)

-----------------------------------------------------------------------------
(* The remote platform: what the tagging API lists and how a call ends.   *)

\* names of the tagged resources of a resource type
ResourceNames(rtype) ==
    IF rtype = "rds:db" THEN {"db-1", "db-2"} ELSE {"cluster-9", "db-1"}

\* the ARN of a resource: arn:aws:rds:<region>:<account>:<db|cluster>:<name>
ArnOf(region, rtype, name) ==
    <<"arn", ":", "aws", ":", "rds", ":">> \o region
        \o <<":", "123456789012", ":", IF rtype = "rds:db" THEN "db" ELSE "cluster", ":", name>>

\* the ways the paginator cuts a listing into pages
Pagings(arns) ==
    IF arns = <<>> THEN {<<>>, << <<>> >>}
    ELSE {<<arns>>, <<arns, <<>> >>, << <<Head(arns)>>, Tail(arns) >>}

\* the page sequences the tagging API may answer with: some of the tagged resources
\* of the region and type, each listed once, in any order, at most budget of them
DiscoveryResponses(region, rtype, budget) ==
    UNION { Pagings(arns) :
              arns \in { s \in SeqsUpTo({ArnOf(region, rtype, n) : n \in ResourceNames(rtype)}, budget) :
                            \A i, j \in DOMAIN s : s[i] = s[j] => i = j } }

\* how a start/stop call ends: normally, with one of the two state faults, or otherwise
CallOutcomes == {"ok", "InvalidDBInstanceStateFault", "InvalidDBClusterStateFault", "ClientError"}

-----------------------------------------------------------------------------
(* The class body, main.py:13-16: os.environ[name] raises KeyError for a  *)
(* name that is not defined, and the class is then never created.         *)

\* the first of the four reads that fails, in the order of the class body, or "none"
FirstMissing(e) ==
    IF "PARAM_ACTION" \notin DOMAIN e THEN "PARAM_ACTION"
    ELSE IF "PARAM_RESOURCE_TAG_KEY" \notin DOMAIN e THEN "PARAM_RESOURCE_TAG_KEY"
    ELSE IF "PARAM_RESOURCE_TAG_VALUE" \notin DOMAIN e THEN "PARAM_RESOURCE_TAG_VALUE"
    ELSE IF "PARAM_AWS_REGIONS" \notin DOMAIN e THEN "PARAM_AWS_REGIONS"
    ELSE "none"

\* main.py:16: os.environ['PARAM_AWS_REGIONS'].split(',')
ParseRegions(value) == Split(value, ",")

\* a slip: os.environ.get(name, ''), so that a missing name reads as the empty string
LoadClassWithDefaults ==
    /\ pc = "import"
    /\ pc' = "loaded"
    /\ cls_ACTION' = IF "PARAM_ACTION" \in DOMAIN env THEN env["PARAM_ACTION"] ELSE ""
    /\ RESOURCE_TAG_KEY' =
          IF "PARAM_RESOURCE_TAG_KEY" \in DOMAIN env THEN env["PARAM_RESOURCE_TAG_KEY"] ELSE ""
    /\ RESOURCE_TAG_VALUE' =
          IF "PARAM_RESOURCE_TAG_VALUE" \in DOMAIN env THEN env["PARAM_RESOURCE_TAG_VALUE"] ELSE ""
    /\ AWS_REGIONS' =
          ParseRegions(IF "PARAM_AWS_REGIONS" \in DOMAIN env THEN env["PARAM_AWS_REGIONS"] ELSE <<>>)
    /\ UNCHANGED <<env, region_idx, names, idx, trace, raised, listed, response>>
    /\ UNCHANGED discVars

LoadClass ==
    /\ pc = "import"
    /\ IF FirstMissing(env) # "none"
       THEN /\ pc' = "raised"
            /\ raised' = "KeyError"
            /\ UNCHANGED <<cls_ACTION, RESOURCE_TAG_KEY, RESOURCE_TAG_VALUE, AWS_REGIONS>>
       ELSE /\ pc' = "loaded"
            /\ cls_ACTION' = env["PARAM_ACTION"]
            /\ RESOURCE_TAG_KEY' = env["PARAM_RESOURCE_TAG_KEY"]
            /\ RESOURCE_TAG_VALUE' = env["PARAM_RESOURCE_TAG_VALUE"]
            /\ AWS_REGIONS' = ParseRegions(env["PARAM_AWS_REGIONS"])
            /\ raised' = raised
    /\ UNCHANGED <<env, region_idx, names, idx, trace, listed, response>>
    /\ UNCHANGED discVars

-----------------------------------------------------------------------------
(* _execute, main.py:96-135, and the four transition helpers, 44-94.      *)

Helpers == {"_start_database_instances", "_stop_database_instances",
            "_start_database_clusters", "_stop_database_clusters"}

\* a slip: 'else' in place of the second test, so that any other action stops
DirectionElseStops(action) ==
    IF action \in {"enable", "start"} THEN "start" ELSE "stop"

\* a slip: 'start' listed in the stop branch
DirectionStartStops(action) ==
    IF action \in {"enable"} THEN "start"
    ELSE IF action \in {"disable", "stop", "start"} THEN "stop"
    ELSE "none"

\* main.py:112-115 and 128-131: the direction the configured action selects
Direction(action) ==
    IF action \in {"enable", "start"} THEN "start"
    ELSE IF action \in {"disable", "stop"} THEN "stop"
    ELSE "none"

\* a slip: the helpers of the two categories exchanged
HelperOfSwapped(rtype, direction) ==
    IF rtype = "rds:db"
    THEN (IF direction = "start" THEN "_start_database_clusters" ELSE "_stop_database_clusters")
    ELSE (IF direction = "start" THEN "_start_database_instances" ELSE "_stop_database_instances")

\* main.py:113, 115, 129, 131: the helper called for a category and a direction
HelperOf(rtype, direction) ==
    IF rtype = "rds:db"
    THEN (IF direction = "start" THEN "_start_database_instances" ELSE "_stop_database_instances")
    ELSE (IF direction = "start" THEN "_start_database_clusters" ELSE "_stop_database_clusters")

\* the category whose identifiers a helper is given by _execute
RtypeOf(helper) ==
    IF helper \in {"_start_database_instances", "_stop_database_instances"}
    THEN "rds:db" ELSE "rds:cluster"

\* main.py:52, 65, 78, 91: the client method a helper calls
OperationOf(helper) ==
    CASE helper = "_stop_database_instances" -> "stop_db_instance"
      [] helper = "_start_database_instances" -> "start_db_instance"
      [] helper = "_stop_database_clusters" -> "stop_db_cluster"
      [] helper = "_start_database_clusters" -> "start_db_cluster"

\* a slip: each helper catches the state fault of the other category
CaughtSwapped(helper, outcome) ==
    IF helper \in {"_start_database_instances", "_stop_database_instances"}
    THEN outcome = "InvalidDBClusterStateFault"
    ELSE outcome = "InvalidDBInstanceStateFault"

\* a slip: a bare except, catching every failure of the call
CaughtAll(helper, outcome) == outcome # "ok"

\* main.py:54, 67, 80, 93: the except clause of a helper
Caught(helper, outcome) ==
    IF RtypeOf(helper) = "rds:db"
    THEN outcome = "InvalidDBInstanceStateFault"
    ELSE outcome = "InvalidDBClusterStateFault"

\* main.py:50, 63, 76, 89: the severity of the line logged before the call
BeforeLevel(helper) ==
    IF helper \in {"_stop_database_instances", "_stop_database_clusters"}
    THEN "info" ELSE "debug"

\* main.py:48, 61, 74, 87
EnterMsg(helper) ==
    CASE helper = "_stop_database_instances" -> "> Stopping RDS database instances."
      [] helper = "_start_database_instances" -> "> Starting RDS database instances."
      [] helper = "_stop_database_clusters" -> "> Stopping RDS database clusters."
      [] helper = "_start_database_clusters" -> "> Starting RDS database clusters."

\* main.py:50, 63, 76, 89
BeforeMsg(helper) ==
    CASE helper = "_stop_database_instances" -> ">> Stopping RDS database instance %s."
      [] helper = "_start_database_instances" -> ">> Starting RDS database instance %s."
      [] helper = "_stop_database_clusters" -> ">> Stopping RDS database cluster %s."
      [] helper = "_start_database_clusters" -> ">> Starting RDS database cluster %s."

\* main.py:53, 66, 79, 92
ReachedMsg(helper) ==
    CASE helper = "_stop_database_instances" -> ">> RDS database instance %s => [STOPPED]."
      [] helper = "_start_database_instances" -> ">> RDS database instance %s => [AVAILABLE]."
      [] helper = "_stop_database_clusters" -> ">> RDS database cluster %s => [STOPPED]."
      [] helper = "_start_database_clusters" -> ">> RDS database cluster %s => [AVAILABLE]."

\* main.py:55, 68, 81, 94
UnableMsg(helper) ==
    CASE helper = "_stop_database_instances" -> ">> Unable to stop RDS database instance %s due to invalid state."
      [] helper = "_start_database_instances" -> ">> Unable to start RDS database instance %s due to invalid state."
      [] helper = "_stop_database_clusters" -> ">> Unable to stop RDS database cluster %s due to invalid state."
      [] helper = "_start_database_clusters" -> ">> Unable to start RDS database cluster %s due to invalid state."

\* main.py:101, 117
SearchMsg(rtype) ==
    IF rtype = "rds:db" THEN "> Searching RDS databases in region %s having tag %s=%s."
    ELSE "> Searching RDS clusters in region %s having tag %s=%s."

\* main.py:107, 123
FoundMsg(rtype) ==
    IF rtype = "rds:db" THEN "> Found %s RDS databases in region %s having tag %s=%s."
    ELSE "> Found %s RDS clusters in region %s having tag %s=%s."

\* main.py:98: _execute is entered
Invoke ==
    /\ pc = "loaded"
    /\ pc' = "discover_instances"
    /\ region_idx' = 1
    /\ trace' = Append(trace, LogEv("info", "Starting the operation.", <<>>))
    /\ UNCHANGED <<env, cls_ACTION, RESOURCE_TAG_KEY, RESOURCE_TAG_VALUE, AWS_REGIONS,
                   names, idx, raised, listed, response>>
    /\ UNCHANGED discVars

\* a slip: the end of either category ends the region, the cluster step is never reached
ContinueToNextRegion(tr, rtype) ==
    /\ names' = <<>>
    /\ idx' = 0
    /\ IF region_idx < Len(AWS_REGIONS)
       THEN /\ pc' = "discover_instances"
            /\ region_idx' = region_idx + 1
            /\ trace' = tr
            /\ UNCHANGED response
       ELSE /\ pc' = "done"
            /\ trace' = Append(tr, LogEv("info", "Operation completed successfully.", <<>>))
            /\ response' = "ok"
            /\ UNCHANGED region_idx

\* What follows a category of a region once its transition step is over or skipped:
\* the cluster search (main.py:117), the next region (100), or the end (133-135).
Continue(tr, rtype) ==
    /\ names' = <<>>
    /\ idx' = 0
    /\ IF rtype = "rds:db"
       THEN /\ pc' = "discover_clusters"
            /\ trace' = tr
            /\ UNCHANGED <<region_idx, response>>
       ELSE IF region_idx < Len(AWS_REGIONS)
       THEN /\ pc' = "discover_instances"
            /\ region_idx' = region_idx + 1
            /\ trace' = tr
            /\ UNCHANGED response
       ELSE /\ pc' = "done"
            /\ trace' = Append(tr, LogEv("info", "Operation completed successfully.", <<>>))
            /\ response' = "ok"
            /\ UNCHANGED region_idx

\* a slip: the guard on the number of identifiers is missing
TransitionWantedAlways(ids) == TRUE

\* main.py:111 and 127: the guard of the transition step of a category
TransitionWanted(ids) == Len(ids) > 0

\* main.py:111-115 and 127-131: enter a helper or go on.  Entering a helper logs its
\* first line (48, 61, 74, 87); its loop over an empty list has no turn.
Dispatch(tr, rtype, ids) ==
    IF TransitionWanted(ids) /\ Direction(cls_ACTION) # "none"
    THEN LET helper == HelperOf(rtype, Direction(cls_ACTION))
             entered == Append(tr, LogEv("info", EnterMsg(helper), <<>>))
         IN  IF ids = <<>>
             THEN Continue(entered, rtype)
             ELSE /\ pc' = helper
                  /\ names' = ids
                  /\ idx' = 1
                  /\ trace' = entered
                  /\ UNCHANGED <<region_idx, response>>
    ELSE Continue(tr, rtype)

\* main.py:101-108 and 117-124: the search of one category in the current region
Discover(rtype) ==
    /\ pc = (IF rtype = "rds:db" THEN "discover_instances" ELSE "discover_clusters")
    /\ LET region == AWS_REGIONS[region_idx]
           searching == LogEv("info", SearchMsg(rtype), region)
       IN  \/ \E pages \in DiscoveryResponses(region, rtype, MaxResources - listed) :
                 LET ids == GetResourceIdentifiersByTag(pages)
                     tr == trace \o <<searching,
                                      DiscoverEv(region_idx, region, rtype, ids, "ok"),
                                      FoundEv(FoundMsg(rtype), Len(ids), region)>>
                 IN  /\ listed' = listed + Len(ids)
                     /\ raised' = raised
                     /\ Dispatch(tr, rtype, ids)
           \/ /\ trace' = trace \o <<searching,
                                     DiscoverEv(region_idx, region, rtype, <<>>, "ClientError")>>
              /\ pc' = "raised"
              /\ raised' = "ClientError"
              /\ UNCHANGED <<region_idx, names, idx, listed, response>>
    /\ UNCHANGED <<env, cls_ACTION, RESOURCE_TAG_KEY, RESOURCE_TAG_VALUE, AWS_REGIONS>>
    /\ UNCHANGED discVars

DiscoverInstances == Discover("rds:db")

DiscoverClusters == Discover("rds:cluster")

\* One turn of a helper's loop (main.py:49-55, 62-68, 75-81, 88-94): the line before
\* the call, the call, and the line after it or the exception that leaves the program.
TransitionStep(helper) ==
    /\ pc = helper
    /\ LET region == AWS_REGIONS[region_idx]
           name == names[idx]
           before == LogEv(BeforeLevel(helper), BeforeMsg(helper), name)
       IN  \E outcome \in CallOutcomes :
             LET call == CallEv(region_idx, region, OperationOf(helper), name, outcome)
                 after == IF outcome = "ok"
                          THEN LogEv("info", ReachedMsg(helper), name)
                          ELSE LogEv("warning", UnableMsg(helper), name)
             IN  IF outcome = "ok" \/ Caught(helper, outcome)
                 THEN /\ raised' = raised
                      /\ IF idx < Len(names)
                         THEN /\ idx' = idx + 1
                              /\ trace' = trace \o <<before, call, after>>
                              /\ UNCHANGED <<pc, names, region_idx, response>>
                         ELSE Continue(trace \o <<before, call, after>>, RtypeOf(helper))
                 ELSE /\ pc' = "raised"
                      /\ raised' = outcome
                      /\ trace' = trace \o <<before, call>>
                      /\ UNCHANGED <<names, idx, region_idx, response>>
    /\ UNCHANGED <<env, cls_ACTION, RESOURCE_TAG_KEY, RESOURCE_TAG_VALUE, AWS_REGIONS, listed>>
    /\ UNCHANGED discVars

StartDatabaseInstances == TransitionStep("_start_database_instances")

StopDatabaseInstances == TransitionStep("_stop_database_instances")

StartDatabaseClusters == TransitionStep("_start_database_clusters")

StopDatabaseClusters == TransitionStep("_stop_database_clusters")

-----------------------------------------------------------------------------
(* The program: the class is loaded, then one invocation runs.            *)

NotRun == <<"<not run>">>

Init ==
    /\ env \in Envs
    /\ cls_ACTION = Unset
    /\ RESOURCE_TAG_KEY = Unset
    /\ RESOURCE_TAG_VALUE = Unset
    /\ AWS_REGIONS = <<>>
    /\ pc = "import"
    /\ region_idx = 0
    /\ names = <<>>
    /\ idx = 0
    /\ trace = <<>>
    /\ raised = "none"
    /\ listed = 0
    /\ response = "none"
    /\ resource_pages = <<>>
    /\ resource_identifiers = NotRun

Next ==
    \/ LoadClass
    \/ Invoke
    \/ DiscoverInstances
    \/ StartDatabaseInstances
    \/ StopDatabaseInstances
    \/ DiscoverClusters
    \/ StartDatabaseClusters
    \/ StopDatabaseClusters

Spec == Init /\ [][Next]_vars

-----------------------------------------------------------------------------
(* Discovery alone: the paginator delivers pages of arbitrary ARNs, then  *)
(* _get_resource_identifiers_by_tag is applied to them.                   *)

\* ARNs as the tagging API may return them, and strings with no, one or several ':'
SampleArns ==
    { <<>>,
      <<"a">>,
      <<":">>,
      <<"a", ":">>,
      <<":", "b">>,
      <<"a", ":", "b">>,
      <<"b", ":", "a", ":", "b">>,
      ArnOf(<<"us-east-1">>, "rds:db", "db-1") }

RECURSIVE Total(_)
\* number of resources in a sequence of pages
Total(pages) == IF pages = <<>> THEN 0 ELSE Len(Head(pages)) + Total(Tail(pages))

InitDisc ==
    /\ env = [n \in {} |-> ""]
    /\ cls_ACTION = Unset
    /\ RESOURCE_TAG_KEY = Unset
    /\ RESOURCE_TAG_VALUE = Unset
    /\ AWS_REGIONS = <<>>
    /\ pc = "import"
    /\ region_idx = 0
    /\ names = <<>>
    /\ idx = 0
    /\ trace = <<>>
    /\ raised = "none"
    /\ listed = 0
    /\ response = "none"
    /\ resource_pages = <<>>
    /\ resource_identifiers = NotRun

\* the paginator has one more page (main.py:21, 37)
DeliverPage ==
    /\ resource_identifiers = NotRun
    /\ Len(resource_pages) < MaxPages
    /\ \E page \in SeqsUpTo(SampleArns, MaxListed - Total(resource_pages)) :
          resource_pages' = Append(resource_pages, page)
    /\ UNCHANGED resource_identifiers
    /\ UNCHANGED execVars

\* main.py:35-42 applied to the pages delivered
RunDiscovery ==
    /\ resource_identifiers = NotRun
    /\ resource_identifiers' = GetResourceIdentifiersByTag(resource_pages)
    /\ UNCHANGED resource_pages
    /\ UNCHANGED execVars

NextDisc == DeliverPage \/ RunDiscovery

SpecDisc == InitDisc /\ [][NextDisc]_vars

-----------------------------------------------------------------------------
(* Reading the trace. *)

IsCall(e) == e.kind = "call"

IsDiscover(e) == e.kind = "discover"

IsRemote(e) == e.kind \in {"call", "discover"}

StartOps == {"start_db_instance", "start_db_cluster"}

StopOps == {"stop_db_instance", "stop_db_cluster"}

\* the category an operation variant belongs to
CategoryOfOp(op) ==
    IF op \in {"start_db_instance", "stop_db_instance"} THEN "rds:db" ELSE "rds:cluster"

\* the invalid-state fault of a category
StateFaultOf(rtype) ==
    IF rtype = "rds:db" THEN "InvalidDBInstanceStateFault" ELSE "InvalidDBClusterStateFault"

\* a call that failed with the invalid-state fault of its own category
IsStateFaultCall(e) == IsCall(e) /\ e.res = StateFaultOf(CategoryOfOp(e.op))

\* a remote call that failed otherwise
IsUnexpected(e) ==
    \/ IsDiscover(e) /\ e.res # "ok"
    \/ IsCall(e) /\ e.res # "ok" /\ ~IsStateFaultCall(e)

\* the start/stop calls of one category in one region iteration, in order
CallsOf(it, rtype) ==
    SelectSeq(trace, LAMBDA e : IsCall(e) /\ e.iter = it /\ CategoryOfOp(e.op) = rtype)

\* the successful discoveries of one category in one region iteration, in order
DiscoveriesOf(it, rtype) ==
    SelectSeq(trace, LAMBDA e : IsDiscover(e) /\ e.iter = it /\ e.what = rtype /\ e.res = "ok")

\* the remote calls of the invocation, in order
RemoteCalls == SelectSeq(trace, IsRemote)

\* the start/stop calls of the invocation, in order
TransitionCalls == SelectSeq(trace, IsCall)

IdsOf(calls) == [k \in 1..Len(calls) |-> calls[k].id]

IsPrefix(a, b) == Len(a) <= Len(b) /\ a = SubSeq(b, 1, Len(a))

Categories == {"rds:db", "rds:cluster"}

Iterations == 1..Len(AWS_REGIONS)

HelperEntered(helper) ==
    \E i \in DOMAIN trace : trace[i].kind = "log" /\ trace[i].what = EnterMsg(helper)

CompletionLogged ==
    \E i \in DOMAIN trace :
        trace[i].kind = "log" /\ trace[i].what = "Operation completed successfully."

-----------------------------------------------------------------------------
(* C7 *)

\* the k-th resource of the pages taken together, in the order returned
RECURSIVE Flat(_)
Flat(pages) == IF pages = <<>> THEN <<>> ELSE Head(pages) \o Flat(Tail(pages))

\* id is the substring of arn after its last ':' (all of arn when it has none)
AfterLastColon(arn, id) ==
    \E p \in 0..Len(arn) :
        /\ p > 0 => arn[p] = ":"
        /\ p = 0 => \A q \in 1..Len(arn) : arn[q] # ":"
        /\ \A q \in (p + 1)..Len(arn) : arn[q] # ":"
        /\ id = [q \in 1..(Len(arn) - p) |-> arn[p + q]]

\* C7: the discovery returns one identifier per listed resource, in the order of
\* the pages and of the resources within each page, duplicates kept, each the
\* substring of the resource's ARN after its last ':'; no page or only empty
\* pages give the empty list.
C7_DiscoveryIsPageConcatenation ==
    resource_identifiers # NotRun =>
        /\ Len(resource_identifiers) = Total(resource_pages)
        /\ \A k \in 1..Len(resource_identifiers) :
              AfterLastColon(Flat(resource_pages)[k], resource_identifiers[k])
        /\ (\A j \in DOMAIN resource_pages : resource_pages[j] = <<>>)
              => resource_identifiers = <<>>

\* two pages, a duplicate across them, and ARNs with several ':'
C7_Witness ==
    /\ resource_identifiers # NotRun
    /\ Len(resource_pages) = 2
    /\ Len(resource_pages[1]) = 2
    /\ Len(resource_pages[2]) = 1
    /\ resource_pages[1][1] = <<"b", ":", "a", ":", "b">>
    /\ resource_pages[1][2] = <<"a", ":">>
    /\ resource_pages[2][1] = <<":", "b">>
    /\ resource_identifiers = << <<"b">>, <<>>, <<"b">> >>

-----------------------------------------------------------------------------
(* C1 *)

\* the operation variant a direction selects for a category
VariantOf(rtype, direction) ==
    IF rtype = "rds:db"
    THEN (IF direction = "start" THEN "start_db_instance" ELSE "stop_db_instance")
    ELSE (IF direction = "start" THEN "start_db_cluster" ELSE "stop_db_cluster")

\* the calls of a direction that an identifier of a category received in a region
CallsOn(region, rtype, id, ops) ==
    { i \in DOMAIN trace :
        /\ IsCall(trace[i])
        /\ trace[i].region = region
        /\ CategoryOfOp(trace[i].op) = rtype
        /\ trace[i].id = id
        /\ trace[i].op \in ops }

-----------------------------------------------------------------------------
(* C2 *)

\* C2: a call that fails with the invalid-state fault of its category is caught:
\* the warning follows it and the program does not stop there; the identifier is
\* not called again (the calls of its batch stay a prefix of the identifiers found,
\* one per position); and an invocation in which no call or query failed otherwise
\* goes through every later identifier, the cluster step and every later region,
\* and ends with the success response.
C2_StateFaultAbsorbed ==
    \A i \in DOMAIN trace :
        IsStateFaultCall(trace[i]) =>
            /\ i < Len(trace)
            /\ trace[i + 1].kind = "log"
            /\ trace[i + 1].op = "warning"
            /\ trace[i + 1].id = trace[i].id
            /\ pc = "raised" => \E j \in (i + 1)..Len(trace) : IsUnexpected(trace[j])
            /\ LET found == DiscoveriesOf(trace[i].iter, CategoryOfOp(trace[i].op))
                   calls == CallsOf(trace[i].iter, CategoryOfOp(trace[i].op))
               IN  /\ Len(found) = 1
                   /\ IsPrefix(IdsOf(calls), found[1].ids)
                   /\ pc # "raised" =>
                        \/ pc = HelperOf(CategoryOfOp(trace[i].op), Direction(cls_ACTION))
                             /\ region_idx = trace[i].iter
                             /\ idx = Len(calls) + 1
                             /\ idx <= Len(names)
                        \/ IdsOf(calls) = found[1].ids
            /\ pc = "done" =>
                  /\ response = "ok"
                  /\ CompletionLogged
                  /\ \A it \in Iterations, rtype \in Categories :
                        /\ Len(DiscoveriesOf(it, rtype)) = 1
                        /\ IdsOf(CallsOf(it, rtype)) = DiscoveriesOf(it, rtype)[1].ids

\* the first of two instances of the first of two regions failed with the
\* invalid-state fault; the second instance, the clusters and the second region
\* were still processed and the invocation succeeded
C2_Witness ==
    /\ pc = "done"
    /\ response = "ok"
    /\ Len(AWS_REGIONS) = 2
    /\ Len(CallsOf(1, "rds:db")) = 2
    /\ IsStateFaultCall(CallsOf(1, "rds:db")[1])
    /\ CallsOf(1, "rds:db")[2].res = "ok"
    /\ Len(CallsOf(2, "rds:cluster")) = 1
    /\ IsStateFaultCall(CallsOf(2, "rds:cluster")[1])

-----------------------------------------------------------------------------
(* C3 *)

\* C3: a start/stop call that fails otherwise than with the invalid-state fault of
\* its category is the last thing the invocation does: nothing is logged or called
\* after it, the exception leaves the program, and neither the completion line nor
\* the success response is produced.
C3_UnexpectedFailurePropagates ==
    \A i \in DOMAIN trace :
        (IsCall(trace[i]) /\ IsUnexpected(trace[i])) =>
            /\ i = Len(trace)
            /\ pc = "raised"
            /\ raised = trace[i].res
            /\ response = "none"
            /\ ~CompletionLogged

\* the first of two instances found failed with a fault that is not caught, with
\* the second instance, the clusters and a second region still to come
C3_Witness ==
    /\ pc = "raised"
    /\ Len(AWS_REGIONS) = 2
    /\ region_idx = 1
    /\ Len(names) = 2
    /\ idx = 1
    /\ Len(CallsOf(1, "rds:db")) = 1
    /\ CallsOf(1, "rds:db")[1].res = "InvalidDBClusterStateFault"
    /\ Len(RemoteCalls) = 2

-----------------------------------------------------------------------------
(* C4 *)

\* C4: when the discovery of a category in a region iteration returned no
\* identifier, no start or stop call of that category is issued in that iteration
\* and no helper is entered: what follows the 'Found 0' line is the next search or
\* the end of the invocation.
C4_NothingFoundNothingCalled ==
    \A j \in DOMAIN trace :
        (IsDiscover(trace[j]) /\ trace[j].res = "ok" /\ trace[j].ids = <<>>) =>
            /\ CallsOf(trace[j].iter, trace[j].what) = <<>>
            /\ j + 1 <= Len(trace)
            /\ trace[j + 1].kind = "log"
            /\ trace[j + 1].what = FoundMsg(trace[j].what)
            /\ trace[j + 1].count = 0
            /\ j + 2 <= Len(trace) =>
                  /\ trace[j + 2].kind = "log"
                  /\ trace[j + 2].what \notin {EnterMsg(h) : h \in Helpers}
            /\ pc \in Helpers => (region_idx # trace[j].iter \/ RtypeOf(pc) # trace[j].what)

\* action stop: no instance was found in the first region, where the helper was
\* not entered, and a cluster was found and stopped there
C4_Witness ==
    /\ pc = "done"
    /\ cls_ACTION = "stop"
    /\ Len(DiscoveriesOf(1, "rds:db")) = 1
    /\ DiscoveriesOf(1, "rds:db")[1].ids = <<>>
    /\ Len(CallsOf(1, "rds:cluster")) = 1
    /\ ~HelperEntered("_stop_database_instances")
    /\ HelperEntered("_stop_database_clusters")

-----------------------------------------------------------------------------
(* C5 *)

\* what an action outside the four recognised values does
UnrecognisedActionIsNoOp ==
    /\ TransitionCalls = <<>>
    /\ \A h \in Helpers : ~HelperEntered(h) /\ pc # h
    /\ pc = "raised" => (trace # <<>> /\ IsDiscover(trace[Len(trace)])
                           /\ trace[Len(trace)].res # "ok")
    /\ pc = "done" =>
          /\ response = "ok"
          /\ \A it \in Iterations, rtype \in Categories : Len(DiscoveriesOf(it, rtype)) = 1
          /\ Len(RemoteCalls) = 2 * Len(AWS_REGIONS)

\* what each action of a pair of synonyms does: every call is of the direction, and
\* every non-empty discovery is followed by the entry into the helper of the
\* direction and of the category
ActsAs(direction) ==
    /\ \A i \in DOMAIN trace :
          IsCall(trace[i]) =>
              trace[i].op \in (IF direction = "start" THEN StartOps ELSE StopOps)
    /\ \A j \in DOMAIN trace :
          (IsDiscover(trace[j]) /\ trace[j].res = "ok" /\ trace[j].ids # <<>>) =>
              /\ j + 2 <= Len(trace)
              /\ trace[j + 2].kind = "log"
              /\ trace[j + 2].what =
                    EnterMsg(IF trace[j].what = "rds:db"
                             THEN (IF direction = "start" THEN "_start_database_instances"
                                   ELSE "_stop_database_instances")
                             ELSE (IF direction = "start" THEN "_start_database_clusters"
                                   ELSE "_stop_database_clusters"))

\* C5: with an action outside {start, stop, enable, disable} (exact match), the
\* invocation queries instances and clusters in every region, issues no start and
\* no stop call, enters no helper, fails only if a discovery query fails, and ends
\* with the success response; 'enable' does what 'start' does and 'disable' what
\* 'stop' does.
C5_UnrecognisedActionDiscoversOnly ==
    cls_ACTION # Unset =>
        /\ cls_ACTION \notin {"start", "stop", "enable", "disable"} => UnrecognisedActionIsNoOp
        /\ cls_ACTION \in {"start", "enable"} => ActsAs("start")
        /\ cls_ACTION \in {"stop", "disable"} => ActsAs("stop")

\* action 'Start': two regions were searched, resources were found, nothing was called
C5_Witness ==
    /\ pc = "done"
    /\ cls_ACTION = "Start"
    /\ response = "ok"
    /\ Len(AWS_REGIONS) = 2
    /\ Len(RemoteCalls) = 4
    /\ DiscoveriesOf(1, "rds:db")[1].ids # <<>>
    /\ DiscoveriesOf(2, "rds:cluster")[1].ids # <<>>

-----------------------------------------------------------------------------
(* C6 *)

\* the step of a region iteration a remote call belongs to
Stage(e) ==
    IF IsDiscover(e)
    THEN (IF e.what = "rds:db" THEN 1 ELSE 3)
    ELSE (IF CategoryOfOp(e.op) = "rds:db" THEN 2 ELSE 4)

\* b may be the remote call that comes next after a
Follows(a, b) ==
    \/ b.iter = a.iter /\ Stage(a) = 1 /\ Stage(b) \in {2, 3}
    \/ b.iter = a.iter /\ Stage(a) = 2 /\ Stage(b) \in {2, 3}
    \/ b.iter = a.iter /\ Stage(a) = 3 /\ Stage(b) = 4
    \/ b.iter = a.iter /\ Stage(a) = 4 /\ Stage(b) = 4
    \/ b.iter = a.iter + 1 /\ Stage(a) \in {3, 4} /\ Stage(b) = 1

\* some remote call comes after the transition calls of a category in an iteration
LaterStageReached(it, rtype) ==
    \E i \in DOMAIN trace :
        /\ IsRemote(trace[i])
        /\ \/ trace[i].iter > it
           \/ trace[i].iter = it /\ rtype = "rds:db" /\ Stage(trace[i]) \in {3, 4}

\* the scenario of the specification: the regions, the action and what was found
ScenarioRan ==
    /\ pc = "done"
    /\ cls_ACTION = "stop"
    /\ AWS_REGIONS = << <<"us-east-1">>, <<"eu-west-1">> >>
    /\ DiscoveriesOf(1, "rds:db")[1].ids = << <<"db-1">>, <<"db-2">> >>
    /\ DiscoveriesOf(1, "rds:cluster")[1].ids = <<>>
    /\ DiscoveriesOf(2, "rds:db")[1].ids = <<>>
    /\ DiscoveriesOf(2, "rds:cluster")[1].ids = << <<"cluster-9">> >>

\* C6: the remote calls of an invocation are in one order: regions in the
\* configured order and, per region, the instance search, the calls on the
\* instances in the order found, the cluster search, the calls on the clusters in
\* the order found; a search or a call of a later step is issued only after every
\* call of the earlier step.  In the scenario of the specification the calls are
\* stop(db-1), stop(db-2), stop(cluster-9).
C6_RemoteCallsInOrder ==
    LET r == RemoteCalls
    IN  /\ Len(r) > 0 => (r[1].iter = 1 /\ Stage(r[1]) = 1)
        /\ \A k \in 1..(Len(r) - 1) : Follows(r[k], r[k + 1])
        /\ \A k \in 1..Len(r) :
              /\ r[k].iter \in Iterations
              /\ r[k].region = AWS_REGIONS[r[k].iter]
        /\ \A it \in Iterations, rtype \in Categories :
              LET found == DiscoveriesOf(it, rtype)
                  calls == CallsOf(it, rtype)
              IN  /\ calls # <<>> => (Len(found) = 1 /\ IsPrefix(IdsOf(calls), found[1].ids))
                  /\ (LaterStageReached(it, rtype) /\ Direction(cls_ACTION) # "none") =>
                        (Len(found) = 1 /\ IdsOf(calls) = found[1].ids)
        /\ ScenarioRan =>
              [k \in 1..Len(TransitionCalls) |->
                   <<TransitionCalls[k].op, TransitionCalls[k].region, TransitionCalls[k].id>>]
              = << <<"stop_db_instance", <<"us-east-1">>, <<"db-1">> >>,
                   <<"stop_db_instance", <<"us-east-1">>, <<"db-2">> >>,
                   <<"stop_db_cluster", <<"eu-west-1">>, <<"cluster-9">> >> >>

\* the scenario of the specification has run to its end
C6_Witness == ScenarioRan /\ response = "ok" /\ Len(TransitionCalls) = 3

-----------------------------------------------------------------------------
(* C8 *)

\* a PARAM_AWS_REGIONS value that is empty or has an empty segment
MalformedRegions(value) ==
    \/ value = <<>>
    \/ value[1] = ","
    \/ value[Len(value)] = ","
    \/ \E q \in 1..(Len(value) - 1) : value[q] = "," /\ value[q + 1] = ","

MalformedConfiguration(e) ==
    "PARAM_AWS_REGIONS" \in DOMAIN e /\ MalformedRegions(e["PARAM_AWS_REGIONS"])

NumberOfCommas(value) == Cardinality({q \in DOMAIN value : value[q] = ","})

\* C8 as stated: with a configuration value missing or malformed (an empty regions
\* string or an empty segment), no discovery query and no start/stop call is
\* ever issued.
C8_BadConfigurationStopsAtStartup ==
    (FirstMissing(env) # "none" \/ MalformedConfiguration(env)) => RemoteCalls = <<>>

\* C8 as amended: a missing configuration value is a hard failure at startup (the
\* class body raises KeyError): the class attributes are never set, nothing is
\* logged and no discovery query or start/stop call is issued.  A regions value
\* that is empty or has an empty segment is not detected: the class loads, the
\* value is split at every comma, an empty segment is the region '' of AWS_REGIONS,
\* and nothing but a missing value raises KeyError.
C8_MissingConfigurationStopsAtStartup ==
    /\ FirstMissing(env) # "none" =>
          /\ pc \in {"import", "raised"}
          /\ pc = "raised" => raised = "KeyError"
          /\ trace = <<>>
          /\ response = "none"
          /\ cls_ACTION = Unset
          /\ AWS_REGIONS = <<>>
    /\ FirstMissing(env) = "none" =>
          /\ raised # "KeyError"
          /\ pc # "import" =>
                /\ cls_ACTION = env["PARAM_ACTION"]
                /\ RESOURCE_TAG_KEY = env["PARAM_RESOURCE_TAG_KEY"]
                /\ RESOURCE_TAG_VALUE = env["PARAM_RESOURCE_TAG_VALUE"]
                /\ Len(AWS_REGIONS) = NumberOfCommas(env["PARAM_AWS_REGIONS"]) + 1
                /\ \A k \in DOMAIN AWS_REGIONS : \A q \in DOMAIN AWS_REGIONS[k] :
                      AWS_REGIONS[k][q] # ","
                /\ MalformedRegions(env["PARAM_AWS_REGIONS"])
                      <=> (\E k \in DOMAIN AWS_REGIONS : AWS_REGIONS[k] = <<>>)

\* PARAM_AWS_REGIONS alone is missing and the class body has failed
C8_Witness ==
    /\ DOMAIN env = EnvNames \ {"PARAM_AWS_REGIONS"}
    /\ pc = "raised"
    /\ raised = "KeyError"

-----------------------------------------------------------------------------
(* C9 *)

\* C9 as stated: each start/stop call is preceded by an info line on its
\* identifier; a call that succeeded is followed by the info line naming the state
\* reached, a call that failed with the invalid-state fault by the warning line,
\* and the line of success never follows a failed call.
C9_InfoLineBeforeEachCall ==
    \A i \in DOMAIN trace :
        IsCall(trace[i]) =>
            /\ i > 1
            /\ trace[i - 1].kind = "log"
            /\ trace[i - 1].id = trace[i].id
            /\ trace[i - 1].op = "info"
            /\ trace[i].res = "ok" =>
                  /\ i < Len(trace)
                  /\ trace[i + 1].kind = "log"
                  /\ trace[i + 1].op = "info"
                  /\ trace[i + 1].id = trace[i].id
            /\ IsStateFaultCall(trace[i]) =>
                  /\ i < Len(trace)
                  /\ trace[i + 1].kind = "log"
                  /\ trace[i + 1].op = "warning"
                  /\ trace[i + 1].id = trace[i].id
            /\ (trace[i].res # "ok" /\ i < Len(trace)) => trace[i + 1].op # "info"

-----------------------------------------------------------------------------
(* C10 *)

\* C10: every start/stop call is on an identifier that the discovery of the same
\* region iteration and of the call's own category returned before it, and is sent
\* to the region of that iteration, which is also the region that was searched.
C10_CallsOnlyOnDiscovered ==
    \A i \in DOMAIN trace :
        IsCall(trace[i]) =>
            /\ trace[i].iter \in Iterations
            /\ trace[i].region = AWS_REGIONS[trace[i].iter]
            /\ \E j \in 1..(i - 1) :
                  /\ IsDiscover(trace[j])
                  /\ trace[j].res = "ok"
                  /\ trace[j].iter = trace[i].iter
                  /\ trace[j].region = trace[i].region
                  /\ trace[j].what = CategoryOfOp(trace[i].op)
                  /\ \E k \in DOMAIN trace[j].ids : trace[j].ids[k] = trace[i].id

\* an instance and a cluster of the same name were found in two different regions,
\* and each received the operation of its category in its region
C10_Witness ==
    /\ pc = "done"
    /\ Len(AWS_REGIONS) = 2
    /\ AWS_REGIONS[1] # AWS_REGIONS[2]
    /\ Len(CallsOf(1, "rds:db")) >= 1
    /\ Len(CallsOf(2, "rds:cluster")) >= 1
    /\ CallsOf(1, "rds:db")[1].id = <<"db-1">>
    /\ CallsOf(2, "rds:cluster")[1].id = <<"db-1">>
    /\ CallsOf(1, "rds:db")[1].op = "start_db_instance"
    /\ CallsOf(2, "rds:cluster")[1].op = "start_db_cluster"

====
